---------------------------- MODULE Spec2Model ----------------------------
(***************************************************************************)
(* Model of the cat-printer protocol engine (src/src/printer.go) and of    *)
(* the HTTP handlers that call it (src/unnamed/part_000).                  *)
(*                                                                         *)
(* One CatPrinter session is shared by the goroutines in Procs (gin runs   *)
(* every request handler on its own goroutine, and the session holds no    *)
(* lock).  The device is the environment: while the link is up it may push *)
(* any buffer of devBufs into the notification callback at any moment.     *)
(* Bytes are integers 0..255; buffers and packets are sequences of bytes,  *)
(* so Go's buf[i] is buf[i+1] here.                                        *)
(***************************************************************************)
EXTENDS Integers, Sequences, FiniteSets, TLC

(* ------------------------- protocol constants ------------------------- *)
Preamble1 == 34
Preamble2 == 33
Footer == 255
CmdGetStatus == 161
CmdSetIntensity == 162
CmdPrintRequest == 169
CmdFlushData == 173
CmdPrintComplete == 170
ImageWidthBytes == 48
MinImageBytes == 4320
ChunkSize == 20
LineCount == 10
PrintIntensity == 93
MailboxCapacity == 10

(* ------------------------------- bounds -------------------------------- *)
\* notifications the device may push during one behaviour of Spec
MaxNotifs == 3
\* notifications the device may push during one behaviour of SpecConcurrent
MaxConcurrentNotifs == 2
\* notifications the device may push beyond a full mailbox in SpecFlood
FloodExtra == 2
\* notifications the device may push during one behaviour of SpecReplies
MaxReplyNotifs == 2
\* notifications the device may push during one behaviour of SpecTransfer
MaxTransferNotifs == 1
\* notifications the device may push during one behaviour of SpecLive
MaxLiveNotifs == 2

Procs == {1, 2}

(* ------------------------------ checksum ------------------------------- *)
Bit(x, i) == (x \div (2 ^ i)) % 2

\* a ^ b on bytes
Xor8(a, b) ==
    LET X(i) == ((Bit(a, i) + Bit(b, i)) % 2) * (2 ^ i)
    IN  X(0) + X(1) + X(2) + X(3) + X(4) + X(5) + X(6) + X(7)

\* a round that folds in the polynomial 0x31
CrcRoundDallas == [crc \in 0..255 |->
    IF crc >= 128 THEN Xor8((crc * 2) % 256, 49) ELSE (crc * 2) % 256]

\* one round of the inner loop: shift left, folding in the polynomial 0x07
CrcRound == [crc \in 0..255 |->
    IF crc >= 128 THEN Xor8((crc * 2) % 256, 7) ELSE (crc * 2) % 256]

\* the eight rounds of the inner loop
CrcRounds == [crc \in 0..255 |->
    CrcRound[CrcRound[CrcRound[CrcRound[CrcRound[CrcRound[CrcRound[CrcRound[crc]]]]]]]]]

\* the loop body for one data byte: crc ^= b, then the eight rounds
CrcByte(crc, b) == CrcRounds[Xor8(crc, b)]

\* the checksum register after the first n bytes of data
RECURSIVE CrcUpTo(_, _)
CrcUpTo(data, n) ==
    IF n = 0 THEN 0 ELSE CrcByte(CrcUpTo(data, n - 1), data[n])

calculateCRC8(data) == CrcUpTo(data, Len(data))

(* --------------------------- outbound packets -------------------------- *)
StatusPacket ==
    <<Preamble1, Preamble2, CmdGetStatus, 0, 1, 0, 0, calculateCRC8(<<0>>), Footer>>

IntensityPacket(intensity) ==
    <<Preamble1, Preamble2, CmdSetIntensity, 0, 1, 0,
      intensity % 256, calculateCRC8(<<intensity % 256>>), Footer>>

PrintRequestPayload ==
    <<LineCount % 256, (LineCount \div 256) % 256, 48, 0>>

PrintRequestPacket ==
    <<Preamble1, Preamble2, CmdPrintRequest, 0, 4, 0>>
        \o PrintRequestPayload
        \o <<calculateCRC8(PrintRequestPayload), Footer>>

FlushPacket ==
    <<Preamble1, Preamble2, CmdFlushData, 0, 1, 0, 0, calculateCRC8(<<0>>), Footer>>

(* ------------------------- image transfer sizes ------------------------ *)
TestImageBytes == ImageWidthBytes * LineCount

PaddedLen(n) == IF n < MinImageBytes THEN MinImageBytes ELSE n

NumChunks(n) == (PaddedLen(n) + ChunkSize - 1) \div ChunkSize

\* the test pattern of TestPrintCard: lines of alternating 0xFF and 0x00
\* bytes, odd lines starting with 0x00
TestImage ==
    [k \in 1..TestImageBytes |->
        IF ((k - 1) % ImageWidthBytes) % 2 = ((k - 1) \div ImageWidthBytes) % 2
        THEN 255 ELSE 0]

\* an image of n bytes, none of them zero
ImageOfLen(n) == [k \in 1..n |-> ((k - 1) % 255) + 1]

\* the image lengths SpecTransfer feeds to transferImageData: empty, one byte
\* short of the floor, the floor, and beyond it by less and by more than a chunk
ImageLens ==
    {0, MinImageBytes - 1, MinImageBytes, MinImageBytes + 1,
     MinImageBytes + ChunkSize, MinImageBytes + ChunkSize + 1}

ImageInputs == {TestImage} \cup {ImageOfLen(n) : n \in ImageLens}

\* a transfer that sends the image as it is
paddedDataNoPadding(imageData) == imageData

\* paddedData: imageData, zero-filled up to MinImageBytes
paddedData(imageData) ==
    IF Len(imageData) < MinImageBytes
    THEN imageData \o [k \in 1..(MinImageBytes - Len(imageData)) |-> 0]
    ELSE imageData

\* chunk := paddedData[i:end], end being i + chunkSize cut to the length
Chunk(data, i) ==
    LET end == IF i + ChunkSize > Len(data) THEN Len(data) ELSE i + ChunkSize
    IN  SubSeq(data, i + 1, end)


(* ------------------------ inbound notifications ------------------------ *)
\* a status reply as the device frames it: 8 payload bytes at offsets 6..13
StatusReply(state, battery, temp, errFlag, errCode) ==
    <<Preamble1, Preamble2, CmdGetStatus, 0, 8, 0>>
        \o <<state, 0, 0, battery, temp, 0, errFlag, errCode>>
        \o <<calculateCRC8(<<state, 0, 0, battery, temp, 0, errFlag, errCode>>), Footer>>

\* a one-byte-payload reply carrying command id cmd
ShortReply(cmd, code) ==
    <<Preamble1, Preamble2, cmd, 0, 1, 0, code, calculateCRC8(<<code>>), Footer>>

BufStatusIdle == StatusReply(0, 80, 25, 0, 0)
BufStatusBusy == StatusReply(1, 80, 25, 0, 0)
BufStatusError == StatusReply(0, 80, 25, 1, 5)
BufPrintAccepted == ShortReply(CmdPrintRequest, 0)
BufPrintComplete == ShortReply(CmdPrintComplete, 0)
\* a print-request reply whose two preamble bytes are wrong
BufBadPreamble == <<0, 0>> \o SubSeq(BufPrintAccepted, 3, Len(BufPrintAccepted))

\* what the device may push in Spec, SpecConcurrent and SpecFlood
DeviceBuffers ==
    {BufStatusIdle, BufStatusBusy, BufStatusError,
     BufPrintAccepted, BufPrintComplete, BufBadPreamble}

ConcurrentBuffers == {BufStatusIdle, BufPrintAccepted}

\* the flooding device alternates between two buffers
FloodBuffers(n) ==
    IF n = 0 THEN {}
    ELSE IF n % 2 = 1 THEN {BufPrintAccepted} ELSE {BufPrintComplete}

\* a buffer with the status command id, declaring a payload of declared
\* bytes and carrying the bytes rest from offset 6 on
StatusReplyRaw(declared, rest) ==
    <<Preamble1, Preamble2, CmdGetStatus, 0, declared % 256, declared \div 256>>
        \o rest

\* status replies of 13, 14 and 14 bytes: the shortest one parsed, one with an
\* error flag and an error code, one with a byte at offset 13 and no error flag
BufStatus13 == StatusReplyRaw(5, <<0, 11, 12, 70, 30, 13, 0>>)
BufStatus14Err == StatusReplyRaw(8, <<2, 11, 12, 60, 40, 13, 3, 9>>)
BufStatus14 == StatusReplyRaw(8, <<0, 0, 0, 80, 25, 0, 0, 7>>)

\* buffers a status exchange rejects: 8 bytes; a wrong preamble; a declared
\* length beyond the buffer; 12 bytes
BufStatus8 == <<Preamble1, Preamble2, CmdGetStatus, 0, 1, 0, 0, Footer>>
BufStatusBadPreamble == <<0, 0>> \o SubSeq(BufStatus14Err, 3, Len(BufStatus14Err))
BufStatusTooLong == StatusReplyRaw(20, <<1, 0, 0, 50, 50, 0, 1, 4>>)
BufStatus12 == StatusReplyRaw(4, <<1, 0, 0, 50, 50, 0>>)

\* print-request replies that refuse the print: response code 1; 6 bytes
BufPrintRejected == ShortReply(CmdPrintRequest, 1)
BufPrintShort == <<Preamble1, Preamble2, CmdPrintRequest, 0, 0, 0>>

\* what the device may push in SpecReplies
ReplyBuffers ==
    {BufStatus13, BufStatus14Err, BufStatus14, BufStatusIdle,
     BufStatus8, BufStatusBadPreamble, BufStatusTooLong, BufStatus12,
     BufPrintAccepted, BufPrintRejected, BufPrintShort}

(* ------------------------------- state --------------------------------- *)
VARIABLES
    connected,      \* CatPrinter.connected
    notifications,  \* CatPrinter.notifications: the buffered channel, head first
    lastStatus,     \* CatPrinter.lastStatus
    thr,            \* per goroutine: position in the code, and what it did
    budget,         \* notifications the device may still push
    devBufs,        \* what the device may push when budget notifications remain
    callers,        \* the goroutines that invoke the session
    dropped,        \* notifications the callback has dropped
    xfer            \* transferImageData's locals, when its loop is followed step by step

vars == <<connected, notifications, lastStatus, thr, budget, devBufs, callers, dropped,
          xfer>>

NoRefresh == [res |-> "none", Status |-> 0, ErrorFlag |-> 0]

\* a goroutine entering operation opname; disc: the session was Disconnected;
\* arg: the argument of the call, for setIntensity
NewCall(opname, disc) ==
    [pc |-> "idle", op |-> opname, ret |-> "running", wrote |-> {},
     dataOut |-> 0, dataFailed |-> FALSE, refresh |-> NoRefresh,
     flushRes |-> "none", mark |-> 0, disc |-> disc, arg |-> 0]

\* no transfer is being followed step by step
NoTransfer == [pc |-> "off", imageData |-> <<>>, i |-> 0, sent |-> <<>>]

InitStatus ==
    [Connected |-> FALSE, Battery |-> 0, Temperature |-> 0, Status |-> 0,
     ErrorFlag |-> 0, ErrorCode |-> 0, StatusString |-> <<"Not connected">>]

InitSession ==
    /\ connected = FALSE
    /\ notifications = <<>>
    /\ lastStatus = InitStatus
    /\ thr = [p \in Procs |-> [NewCall("none", TRUE) EXCEPT !.ret = "none"]]
    /\ dropped = 0
    /\ xfer = NoTransfer

\* the contract of use: one caller at a time
Init ==
    /\ InitSession
    /\ callers = {1}
    /\ budget = MaxNotifs
    /\ devBufs = [n \in 0..MaxNotifs |-> IF n = 0 THEN {} ELSE DeviceBuffers]

\* the HTTP server: every request handler runs on its own goroutine
InitConcurrent ==
    /\ InitSession
    /\ callers = Procs
    /\ budget = MaxConcurrentNotifs
    /\ devBufs = [n \in 0..MaxConcurrentNotifs |-> IF n = 0 THEN {} ELSE ConcurrentBuffers]

\* a device that pushes more notifications than the mailbox holds
InitFlood ==
    /\ InitSession
    /\ callers = {1}
    /\ budget = MailboxCapacity + FloodExtra
    /\ devBufs = [n \in 0..(MailboxCapacity + FloodExtra) |-> FloodBuffers(n)]

\* a device that answers with status and print-request replies of every shape
InitReplies ==
    /\ InitSession
    /\ callers = {1}
    /\ budget = MaxReplyNotifs
    /\ devBufs = [n \in 0..MaxReplyNotifs |-> IF n = 0 THEN {} ELSE ReplyBuffers]

(* --------------------------- status parsing ---------------------------- *)
\* a parse that reads battery and temperature from each other's offset
parseStatusResponseSwapped(buf, st) ==
    IF Len(buf) < 9 THEN [err |-> "InvalidStatusLength", st |-> st]
    ELSE IF buf[1] # Preamble1 \/ buf[2] # Preamble2
        THEN [err |-> "BadPreamble", st |-> st]
    ELSE IF buf[3] # CmdGetStatus
        THEN [err |-> "UnexpectedCommand", st |-> st]
    ELSE IF Len(buf) < 6 + (buf[5] + (buf[6] * 256))
        THEN [err |-> "LengthMismatch", st |-> st]
    ELSE IF Len(buf) >= 13
        THEN LET flag == buf[13]
             IN  [err |-> "ok",
                  st |-> [Connected |-> TRUE, Battery |-> buf[11],
                          Temperature |-> buf[10], Status |-> buf[7],
                          ErrorFlag |-> flag,
                          ErrorCode |-> IF flag # 0 /\ Len(buf) > 13
                                        THEN buf[14] ELSE st.ErrorCode,
                          StatusString |->
                              <<"Battery: %d%%, Temp: %d, Status: %d, Error: %d",
                                buf[11], buf[10], buf[7], flag>>]]
    ELSE [err |-> "ShortStatusPayload", st |-> st]

\* a parse that marks the stored status Connected before it looks at the
\* length of the payload
parseStatusResponseEager(buf, st) ==
    IF Len(buf) < 9 THEN [err |-> "InvalidStatusLength", st |-> st]
    ELSE IF buf[1] # Preamble1 \/ buf[2] # Preamble2
        THEN [err |-> "BadPreamble", st |-> st]
    ELSE IF buf[3] # CmdGetStatus
        THEN [err |-> "UnexpectedCommand", st |-> st]
    ELSE IF Len(buf) < 6 + (buf[5] + (buf[6] * 256))
        THEN [err |-> "LengthMismatch", st |-> st]
    ELSE IF Len(buf) >= 13
        THEN LET flag == buf[13]
             IN  [err |-> "ok",
                  st |-> [Connected |-> TRUE, Battery |-> buf[10],
                          Temperature |-> buf[11], Status |-> buf[7],
                          ErrorFlag |-> flag,
                          ErrorCode |-> IF flag # 0 /\ Len(buf) > 13
                                        THEN buf[14] ELSE st.ErrorCode,
                          StatusString |->
                              <<"Battery: %d%%, Temp: %d, Status: %d, Error: %d",
                                buf[10], buf[11], buf[7], flag>>]]
    ELSE [err |-> "ShortStatusPayload",
          st |-> [st EXCEPT !.Connected = TRUE, !.Status = buf[7]]]

\* parseStatusResponse: the error it returns and the status it leaves stored
parseStatusResponse(buf, st) ==
    IF Len(buf) < 9 THEN [err |-> "InvalidStatusLength", st |-> st]
    ELSE IF buf[1] # Preamble1 \/ buf[2] # Preamble2
        THEN [err |-> "BadPreamble", st |-> st]
    ELSE IF buf[3] # CmdGetStatus
        THEN [err |-> "UnexpectedCommand", st |-> st]
    ELSE IF Len(buf) < 6 + (buf[5] + (buf[6] * 256))
        THEN [err |-> "LengthMismatch", st |-> st]
    ELSE IF Len(buf) >= 13
        THEN LET battery == IF Len(buf) > 9 THEN buf[10] ELSE st.Battery
                 temp == IF Len(buf) > 10 THEN buf[11] ELSE st.Temperature
                 state == IF Len(buf) > 6 THEN buf[7] ELSE st.Status
                 flag == IF Len(buf) > 12 THEN buf[13] ELSE st.ErrorFlag
                 code == IF Len(buf) > 12 /\ flag # 0 /\ Len(buf) > 13
                         THEN buf[14] ELSE st.ErrorCode
             IN  [err |-> "ok",
                  st |-> [Connected |-> TRUE, Battery |-> battery,
                          Temperature |-> temp, Status |-> state,
                          ErrorFlag |-> flag, ErrorCode |-> code,
                          StatusString |->
                              <<"Battery: %d%%, Temp: %d, Status: %d, Error: %d",
                                battery, temp, state, flag>>]]
    ELSE [err |-> "ShortStatusPayload", st |-> st]

\* a reply check that looks at the command id and not at the response code
PrintReplyResultAnyCode(buf) ==
    IF Len(buf) >= 7
    THEN IF buf[3] = CmdPrintRequest THEN "accepted" ELSE "UnexpectedResponse"
    ELSE "ShortPrintResponse"

\* the print-request reply check of TestPrintCard
PrintReplyResult(buf) ==
    IF Len(buf) >= 7
    THEN IF buf[3] = CmdPrintRequest
         THEN IF buf[7] = 0 THEN "accepted" ELSE "PrintRejected"
         ELSE "UnexpectedResponse"
    ELSE "ShortPrintResponse"

\* the completion check of flushData
FlushReplyResult(buf) ==
    IF Len(buf) >= 3 /\ buf[3] = CmdPrintComplete
    THEN "ok" ELSE "UnexpectedCompletionResponse"

\* what transferImageData returns once flushData returned flushErr
TransferResult(flushErr) == "ok"

(* ----------------------------- the mailbox ----------------------------- *)
\* a callback that makes room by discarding the oldest buffer
NotificationCallbackDropOldest(q, buf) ==
    IF Len(q) < MailboxCapacity THEN Append(q, buf) ELSE Append(Tail(q), buf)

\* the notification callback: a non-blocking send into the channel
NotificationCallback(q, buf) ==
    IF Len(q) < MailboxCapacity THEN Append(q, buf) ELSE q

\* select { case <-p.notifications: ...; default: }
DrainOne(q) == IF q # <<>> THEN Tail(q) ELSE q

\* mark counts the buffers at the head of the mailbox that were already
\* queued when the goroutine's exchange started; a receive takes one of them
Aged(t) == [q \in Procs |-> [t[q] EXCEPT !.mark = IF @ > 0 THEN @ - 1 ELSE 0]]

\* the goroutine records after a non-blocking receive from mailbox q
Dequeued(q, t) == IF q # <<>> THEN Aged(t) ELSE t

\* a transport write succeeds only while the link is up, and may fail then too
WriteOutcomes == IF connected THEN {TRUE, FALSE} ELSE {FALSE}

(* ---------------------------- UpdateStatus ----------------------------- *)
\* UpdateStatus returns res to whoever called it in goroutine record g
AfterUpdateStatus(g, res, st) ==
    CASE g.op = "status" -> [g EXCEPT !.pc = "idle", !.ret = res, !.mark = 0]
      [] g.op = "connect" -> [g EXCEPT !.pc = "idle", !.ret = "ok", !.mark = 0]
      [] g.op = "print" ->
            [g EXCEPT !.pc = "tp_intensity", !.mark = 0,
                      !.refresh = IF res = "ok"
                                  THEN [res |-> "ok", Status |-> st.Status,
                                        ErrorFlag |-> st.ErrorFlag]
                                  ELSE [res |-> res, Status |-> 0, ErrorFlag |-> 0]]

\* UpdateStatus up to the command write: the connected check and the drain
UsFirst(p, g) ==
    IF ~connected
    THEN /\ thr' = [thr EXCEPT ![p] = AfterUpdateStatus(g, "NotConnected", lastStatus)]
         /\ UNCHANGED notifications
    ELSE /\ notifications' = DrainOne(notifications)
         /\ thr' = Dequeued(notifications,
                            [thr EXCEPT ![p] = [g EXCEPT !.pc = "us_write",
                                                         !.mark = Len(notifications)]])

\* the /status handler calls UpdateStatus
GetStatus(p) ==
    /\ thr[p].pc = "idle"
    /\ UsFirst(p, NewCall("status", ~connected))
    /\ UNCHANGED <<connected, lastStatus, budget, devBufs, callers, dropped, xfer>>

\* UpdateStatus as called at the end of Connect
UsEnter(p) ==
    /\ thr[p].pc = "us_enter"
    /\ UsFirst(p, thr[p])
    /\ UNCHANGED <<connected, lastStatus, budget, devBufs, callers, dropped, xfer>>

UsWrite(p) ==
    /\ thr[p].pc = "us_write"
    /\ \E ok \in WriteOutcomes :
          thr' = [thr EXCEPT ![p] =
                    IF ok
                    THEN [@ EXCEPT !.pc = "us_wait",
                                   !.wrote = @ \cup {StatusPacket}]
                    ELSE AfterUpdateStatus(@, "StatusWriteFailed", lastStatus)]
    /\ UNCHANGED <<connected, notifications, lastStatus, budget, devBufs, callers, dropped, xfer>>

\* the receive and the parse of the buffer received, which stores the status
UsReceive(p) ==
    /\ thr[p].pc = "us_wait"
    /\ notifications # <<>>
    /\ LET r == parseStatusResponse(Head(notifications), lastStatus)
       IN  /\ lastStatus' = r.st
           /\ thr' = Aged([thr EXCEPT ![p] = AfterUpdateStatus(@, r.err, r.st)])
    /\ notifications' = Tail(notifications)
    /\ UNCHANGED <<connected, budget, devBufs, callers, dropped, xfer>>

\* a wait for the status reply that has no timer
UsTimeoutMissing(p) ==
    /\ thr[p].pc = "us_wait"
    /\ notifications = <<>>
    /\ FALSE
    /\ UNCHANGED vars

\* the 5 s timer wins the select only while the channel stays empty
UsTimeout(p) ==
    /\ thr[p].pc = "us_wait"
    /\ notifications = <<>>
    /\ thr' = [thr EXCEPT ![p] = AfterUpdateStatus(@, "StatusTimeout", lastStatus)]
    /\ UNCHANGED <<connected, notifications, lastStatus, budget, devBufs, callers, dropped, xfer>>

(* ------------------------ Connect and Disconnect ----------------------- *)
\* Connect: scan, connect, bind the three characteristics, subscribe; on
\* success set connected and go on to UpdateStatus, whose error is dropped
Connect(p) ==
    /\ thr[p].pc = "idle"
    /\ IF connected
       THEN /\ thr' = [thr EXCEPT ![p] = [NewCall("connect", FALSE) EXCEPT !.ret = "ok"]]
            /\ UNCHANGED connected
       ELSE \E handshake \in BOOLEAN :
              IF handshake
              THEN /\ connected' = TRUE
                   /\ thr' = [q \in Procs |->
                                IF q = p
                                THEN [NewCall("connect", TRUE) EXCEPT !.pc = "us_enter"]
                                ELSE IF thr[q].pc # "idle"
                                     THEN [thr[q] EXCEPT !.disc = FALSE]
                                     ELSE thr[q]]
              ELSE /\ thr' = [thr EXCEPT ![p] =
                                [NewCall("connect", TRUE) EXCEPT !.ret = "ConnectFailed"]]
                   /\ UNCHANGED connected
    /\ UNCHANGED <<notifications, lastStatus, budget, devBufs, callers, dropped, xfer>>

Disconnect(p) ==
    /\ thr[p].pc = "idle"
    /\ IF ~connected
       THEN /\ thr' = [thr EXCEPT ![p] = [NewCall("disconnect", TRUE) EXCEPT !.ret = "ok"]]
            /\ UNCHANGED <<connected, lastStatus>>
       ELSE /\ connected' = FALSE
            /\ lastStatus' = [lastStatus EXCEPT !.Connected = FALSE,
                                                !.StatusString = <<"Disconnected">>]
            /\ \E err \in {"ok", "DisconnectFailed"} :
                  thr' = [thr EXCEPT ![p] = [NewCall("disconnect", FALSE) EXCEPT !.ret = err]]
    /\ UNCHANGED <<notifications, budget, devBufs, callers, dropped, xfer>>

(* ----------------------------- setIntensity ---------------------------- *)
\* a setIntensity that sends the low byte of any value
setIntensityUnchecked(intensity, ok) ==
    IF ~connected THEN [err |-> "NotConnected", out |-> {}]
    ELSE IF ok THEN [err |-> "ok", out |-> {IntensityPacket(intensity)}]
    ELSE [err |-> "IntensityWriteFailed", out |-> {}]

\* setIntensity(intensity) when the transport write ends ok or not:
\* the error returned and the packets written
setIntensity(intensity, ok) ==
    IF ~connected THEN [err |-> "NotConnected", out |-> {}]
    ELSE IF intensity < 0 \/ intensity > 255 THEN [err |-> "OutOfRange", out |-> {}]
    ELSE IF ok THEN [err |-> "ok", out |-> {IntensityPacket(intensity)}]
    ELSE [err |-> "IntensityWriteFailed", out |-> {}]

IntensityInputs == {-1, 0, PrintIntensity, 255, 256}

SetIntensity(p) ==
    /\ thr[p].pc = "idle"
    /\ \E v \in IntensityInputs, ok \in WriteOutcomes :
          LET r == setIntensity(v, ok)
          IN  thr' = [thr EXCEPT ![p] =
                        [NewCall("intensity", ~connected) EXCEPT !.ret = r.err,
                                                                 !.wrote = r.out,
                                                                 !.arg = v]]
    /\ UNCHANGED <<connected, notifications, lastStatus, budget, devBufs, callers, dropped, xfer>>

(* ---------------------------- TestPrintCard ---------------------------- *)
\* the /test-print handler calls TestPrintCard, which starts with UpdateStatus
TestPrint(p) ==
    /\ thr[p].pc = "idle"
    /\ UsFirst(p, NewCall("print", ~connected))
    /\ UNCHANGED <<connected, lastStatus, budget, devBufs, callers, dropped, xfer>>

\* p.setIntensity(93), its error dropped
TpIntensity(p) ==
    /\ thr[p].pc = "tp_intensity"
    /\ \E ok \in WriteOutcomes :
          thr' = [thr EXCEPT ![p] =
                    [@ EXCEPT !.pc = "tp_drain",
                              !.wrote = @ \cup setIntensity(PrintIntensity, ok).out]]
    /\ UNCHANGED <<connected, notifications, lastStatus, budget, devBufs, callers, dropped, xfer>>

TpDrain(p) ==
    /\ thr[p].pc = "tp_drain"
    /\ notifications' = DrainOne(notifications)
    /\ thr' = Dequeued(notifications,
                       [thr EXCEPT ![p] = [@ EXCEPT !.pc = "tp_check",
                                                    !.mark = Len(notifications)]])
    /\ UNCHANGED <<connected, lastStatus, budget, devBufs, callers, dropped, xfer>>

\* the gate on the stored status
GateResult(st) ==
    IF st.ErrorFlag # 0 THEN "PrinterError"
    ELSE IF st.Status # 0 THEN "PrinterBusy"
    ELSE "pass"

TpCheck(p) ==
    /\ thr[p].pc = "tp_check"
    /\ thr' = [thr EXCEPT ![p] =
                 IF GateResult(lastStatus) = "pass"
                 THEN [@ EXCEPT !.pc = "tp_write"]
                 ELSE [@ EXCEPT !.pc = "idle", !.ret = GateResult(lastStatus),
                                !.mark = 0]]
    /\ UNCHANGED <<connected, notifications, lastStatus, budget, devBufs, callers, dropped, xfer>>

TpWrite(p) ==
    /\ thr[p].pc = "tp_write"
    /\ \E ok \in WriteOutcomes :
          thr' = [thr EXCEPT ![p] =
                    IF ok
                    THEN [@ EXCEPT !.pc = "tp_wait",
                                   !.wrote = @ \cup {PrintRequestPacket}]
                    ELSE [@ EXCEPT !.pc = "idle", !.ret = "PrintWriteFailed",
                                   !.mark = 0]]
    /\ UNCHANGED <<connected, notifications, lastStatus, budget, devBufs, callers, dropped, xfer>>

TpReceive(p) ==
    /\ thr[p].pc = "tp_wait"
    /\ notifications # <<>>
    /\ LET r == PrintReplyResult(Head(notifications))
       IN  thr' = Aged([thr EXCEPT ![p] =
                          IF r = "accepted"
                          THEN [@ EXCEPT !.pc = "tr", !.mark = 0]
                          ELSE [@ EXCEPT !.pc = "idle", !.ret = r, !.mark = 0]])
    /\ notifications' = Tail(notifications)
    /\ UNCHANGED <<connected, lastStatus, budget, devBufs, callers, dropped, xfer>>

TpTimeout(p) ==
    /\ thr[p].pc = "tp_wait"
    /\ notifications = <<>>
    /\ thr' = [thr EXCEPT ![p] =
                 [@ EXCEPT !.pc = "idle", !.ret = "PrintRequestTimeout", !.mark = 0]]
    /\ UNCHANGED <<connected, notifications, lastStatus, budget, devBufs, callers, dropped, xfer>>

(* ------------------- transferImageData and flushData ------------------- *)
\* the chunk loop (every chunk written, failures only logged), then the
\* connected check that opens flushData
TransferImageData(p) ==
    /\ thr[p].pc = "tr"
    /\ \E allOk \in WriteOutcomes :
          thr' = [thr EXCEPT ![p] =
                    LET g == [@ EXCEPT !.dataOut = NumChunks(TestImageBytes),
                                       !.dataFailed = ~allOk]
                    IN  IF ~connected
                        THEN [g EXCEPT !.pc = "idle", !.flushRes = "NotConnected",
                                       !.ret = TransferResult("NotConnected")]
                        ELSE [g EXCEPT !.pc = "fl_write",
                                       !.mark = Len(notifications)]]
    /\ UNCHANGED <<connected, notifications, lastStatus, budget, devBufs, callers, dropped, xfer>>

FlWrite(p) ==
    /\ thr[p].pc = "fl_write"
    /\ \E ok \in WriteOutcomes :
          thr' = [thr EXCEPT ![p] =
                    IF ok
                    THEN [@ EXCEPT !.pc = "fl_wait",
                                   !.wrote = @ \cup {FlushPacket}]
                    ELSE [@ EXCEPT !.pc = "idle", !.flushRes = "FlushWriteFailed",
                                   !.ret = TransferResult("FlushWriteFailed"),
                                   !.mark = 0]]
    /\ UNCHANGED <<connected, notifications, lastStatus, budget, devBufs, callers, dropped, xfer>>

FlReceive(p) ==
    /\ thr[p].pc = "fl_wait"
    /\ notifications # <<>>
    /\ LET r == FlushReplyResult(Head(notifications))
       IN  thr' = Aged([thr EXCEPT ![p] =
                          [@ EXCEPT !.pc = "idle", !.flushRes = r,
                                    !.ret = TransferResult(r), !.mark = 0]])
    /\ notifications' = Tail(notifications)
    /\ UNCHANGED <<connected, lastStatus, budget, devBufs, callers, dropped, xfer>>

FlTimeout(p) ==
    /\ thr[p].pc = "fl_wait"
    /\ notifications = <<>>
    /\ thr' = [thr EXCEPT ![p] =
                 [@ EXCEPT !.pc = "idle", !.flushRes = "PrintCompletionTimeout",
                           !.ret = TransferResult("PrintCompletionTimeout"),
                           !.mark = 0]]
    /\ UNCHANGED <<connected, notifications, lastStatus, budget, devBufs, callers, dropped, xfer>>

(* ---------------- transferImageData, one chunk at a time --------------- *)
\* a loop that writes a chunk again when its write has failed
TrChunkRetry(p) ==
    /\ thr[p].pc = "tr"
    /\ xfer.pc = "loop"
    /\ xfer.i < Len(paddedData(xfer.imageData))
    /\ \E ok \in WriteOutcomes :
          /\ thr' = [thr EXCEPT ![p] = [@ EXCEPT !.dataOut = @ + 1,
                                                 !.dataFailed = @ \/ ~ok]]
          /\ xfer' = [xfer EXCEPT
                        !.sent = Append(@, Chunk(paddedData(xfer.imageData), xfer.i)),
                        !.i = IF ok THEN @ + ChunkSize ELSE @]
    /\ UNCHANGED <<connected, notifications, lastStatus, budget, devBufs, callers, dropped>>

\* one turn of the loop: the chunk at offset i is written to the data
\* channel, a failure is logged, and i moves on by chunkSize
TrChunk(p) ==
    /\ thr[p].pc = "tr"
    /\ xfer.pc = "loop"
    /\ xfer.i < Len(paddedData(xfer.imageData))
    /\ \E ok \in WriteOutcomes :
          thr' = [thr EXCEPT ![p] = [@ EXCEPT !.dataOut = @ + 1,
                                              !.dataFailed = @ \/ ~ok]]
    /\ xfer' = [xfer EXCEPT !.sent = Append(@, Chunk(paddedData(xfer.imageData), xfer.i)),
                            !.i = @ + ChunkSize]
    /\ UNCHANGED <<connected, notifications, lastStatus, budget, devBufs, callers, dropped>>

\* the loop ends and flushData is called: its connected check
TrFlush(p) ==
    /\ thr[p].pc = "tr"
    /\ xfer.pc = "loop"
    /\ xfer.i >= Len(paddedData(xfer.imageData))
    /\ xfer' = [xfer EXCEPT !.pc = "done"]
    /\ thr' = [thr EXCEPT ![p] =
                 IF ~connected
                 THEN [@ EXCEPT !.pc = "idle", !.flushRes = "NotConnected",
                                !.ret = TransferResult("NotConnected")]
                 ELSE [@ EXCEPT !.pc = "fl_write", !.mark = Len(notifications)]]
    /\ UNCHANGED <<connected, notifications, lastStatus, budget, devBufs, callers, dropped>>

(* ------------------------------ the device ----------------------------- *)
\* the transport hands one buffer to the notification callback; it does so
\* only between a successful Connect and the next Disconnect
Notify(buf) ==
    /\ connected
    /\ budget > 0
    /\ budget' = budget - 1
    /\ notifications' = NotificationCallback(notifications, buf)
    /\ dropped' = IF Len(notifications) >= MailboxCapacity THEN dropped + 1 ELSE dropped
    /\ UNCHANGED <<connected, lastStatus, thr, devBufs, callers, xfer>>

Next ==
    \/ \E p \in callers : Connect(p)
    \/ \E p \in callers : Disconnect(p)
    \/ \E p \in callers : GetStatus(p)
    \/ \E p \in callers : SetIntensity(p)
    \/ \E p \in callers : TestPrint(p)
    \/ \E p \in callers : UsEnter(p)
    \/ \E p \in callers : UsWrite(p)
    \/ \E p \in callers : UsReceive(p)
    \/ \E p \in callers : UsTimeout(p)
    \/ \E p \in callers : TpIntensity(p)
    \/ \E p \in callers : TpDrain(p)
    \/ \E p \in callers : TpCheck(p)
    \/ \E p \in callers : TpWrite(p)
    \/ \E p \in callers : TpReceive(p)
    \/ \E p \in callers : TpTimeout(p)
    \/ \E p \in callers : TransferImageData(p)
    \/ \E p \in callers : FlWrite(p)
    \/ \E p \in callers : FlReceive(p)
    \/ \E p \in callers : FlTimeout(p)
    \/ \E buf \in devBufs[budget] : Notify(buf)

Spec == Init /\ [][Next]_vars

SpecConcurrent == InitConcurrent /\ [][Next]_vars

SpecFlood == InitFlood /\ [][Next]_vars

\* the steps of goroutine p inside an operation: transport writes return,
\* receives and timers fire
Step(p) ==
    \/ UsEnter(p) \/ UsWrite(p) \/ UsReceive(p) \/ UsTimeout(p)
    \/ TpIntensity(p) \/ TpDrain(p) \/ TpCheck(p) \/ TpWrite(p)
    \/ TpReceive(p) \/ TpTimeout(p)
    \/ TransferImageData(p)
    \/ FlWrite(p) \/ FlReceive(p) \/ FlTimeout(p)

\* one caller and a device free to push any of DeviceBuffers, at any time or
\* never
InitLive ==
    /\ InitSession
    /\ callers = {1}
    /\ budget = MaxLiveNotifs
    /\ devBufs = [n \in 0..MaxLiveNotifs |-> IF n = 0 THEN {} ELSE DeviceBuffers]

\* a scheduler that lets every goroutine inside an operation go on; nothing
\* is asked of the device
SpecLive == InitLive /\ [][Next]_vars /\ \A p \in Procs : WF_vars(Step(p))

SpecReplies == InitReplies /\ [][Next]_vars

\* the session at the call of transferImageData: connected, the status
\* query, the set-intensity and the print-request packets written, the
\* request accepted
InitTransfer ==
    /\ connected = TRUE
    /\ notifications = <<>>
    /\ lastStatus = parseStatusResponse(BufStatusIdle, InitStatus).st
    /\ thr = [p \in Procs |->
                IF p = 1
                THEN [NewCall("print", FALSE) EXCEPT
                        !.pc = "tr",
                        !.wrote = {StatusPacket, IntensityPacket(PrintIntensity),
                                   PrintRequestPacket},
                        !.refresh = [res |-> "ok", Status |-> 0, ErrorFlag |-> 0]]
                ELSE [NewCall("none", TRUE) EXCEPT !.ret = "none"]]
    /\ dropped = 0
    /\ callers = {1}
    /\ budget = MaxTransferNotifs
    /\ devBufs = [n \in 0..MaxTransferNotifs |->
                    IF n = 0 THEN {} ELSE {BufPrintComplete, BufStatusIdle}]
    /\ \E image \in ImageInputs :
          xfer = [pc |-> "loop", imageData |-> image, i |-> 0, sent |-> <<>>]

\* transferImageData followed chunk by chunk, for each image of ImageInputs,
\* from the point where TestPrintCard calls it to the return of flushData
NextTransfer ==
    \/ \E p \in callers : TrChunk(p)
    \/ \E p \in callers : TrFlush(p)
    \/ \E p \in callers : FlWrite(p)
    \/ \E p \in callers : FlReceive(p)
    \/ \E p \in callers : FlTimeout(p)
    \/ \E buf \in devBufs[budget] : Notify(buf)

SpecTransfer == InitTransfer /\ [][NextTransfer]_vars

(* ------------------------- vocabulary of the claims -------------------- *)
\* the positions where a goroutine has sent a command and awaits its reply
WaitPcs == {"us_wait", "tp_wait", "fl_wait"}

\* this step, p takes the head of the mailbox as the reply to its command
Receives(p) ==
    /\ thr[p].pc \in WaitPcs
    /\ notifications # <<>>
    /\ thr'[p].pc # thr[p].pc

\* this step, p's wait ends by its timer
TimesOut(p) ==
    /\ thr[p].pc \in WaitPcs
    /\ notifications = <<>>
    /\ thr'[p].pc # thr[p].pc

\* this step, a transport write of p fails
WriteFails(p) ==
    \/ thr[p].pc = "us_write" /\ thr'[p].pc \notin {"us_write", "us_wait"}
    \/ thr[p].pc = "tp_write" /\ thr'[p].pc \notin {"tp_write", "tp_wait"}
    \/ thr[p].pc = "fl_write" /\ thr'[p].pc \notin {"fl_write", "fl_wait"}
    \/ thr[p].pc = "tr" /\ thr'[p].pc # "tr" /\ thr'[p].dataFailed

\* preamble sentinels present and the declared payload fits in the buffer
WellFramed(buf) ==
    /\ Len(buf) >= 6
    /\ buf[1] = Preamble1
    /\ buf[2] = Preamble2
    /\ Len(buf) >= 6 + (buf[5] + (buf[6] * 256))

(* -------------------------------- claims ------------------------------- *)
\* C1: the buffer an exchange consumes as its reply is never one that was
\* already in the mailbox when the exchange started: those have all been
\* discarded before the command is written.
C1_NoStaleReply ==
    [][\A p \in Procs : Receives(p) => thr[p].mark = 0]_vars

\* C2: a status query, set-intensity or print invoked while the session is
\* Disconnected writes nothing to either channel and returns not-connected.
C2_DisconnectedOperationFails ==
    \A p \in Procs :
        (thr[p].op \in {"status", "intensity", "print"} /\ thr[p].disc)
            => /\ thr[p].wrote = {}
               /\ thr[p].dataOut = 0
               /\ thr[p].pc = "idle" => thr[p].ret = "NotConnected"

\* C3: once print's own refresh has shown a printing state or an error flag,
\* print writes no further packet (the status query is all it has written)
\* and ends with printer-error or printer-busy.
C3_GatedPrintWritesNothing ==
    \A p \in Procs :
        (/\ thr[p].op = "print"
         /\ thr[p].refresh.res = "ok"
         /\ thr[p].refresh.Status # 0 \/ thr[p].refresh.ErrorFlag # 0)
            => /\ thr[p].wrote \subseteq {StatusPacket}
               /\ thr[p].dataOut = 0
               /\ thr[p].pc = "idle" =>
                    thr[p].ret = IF thr[p].refresh.ErrorFlag # 0
                                 THEN "PrinterError" ELSE "PrinterBusy"

\* C4: when an exchange of getStatus or print ends by its timer, the invoked
\* operation returns that exchange's timeout error, and neither the connected
\* flag nor the stored status changes.
C4_TimeoutReturnsItsError ==
    [][\A p \in Procs :
          (TimesOut(p) /\ thr[p].op \in {"status", "print"})
             => /\ thr'[p].pc = "idle"
                /\ thr'[p].ret = CASE thr[p].pc = "us_wait" -> "StatusTimeout"
                                   [] thr[p].pc = "tp_wait" -> "PrintRequestTimeout"
                                   [] thr[p].pc = "fl_wait" -> "PrintCompletionTimeout"
                /\ connected /\ connected'
                /\ lastStatus' = lastStatus]_vars

\* C5: the mailbox never holds more than 10 buffers; the delivery callback can
\* always run while the device has something to push; it appends the buffer
\* when there is room and otherwise leaves the mailbox exactly as it was.
C5_MailboxBoundedDropNewest ==
    /\ [](Len(notifications) <= MailboxCapacity)
    /\ []((connected /\ budget > 0) => ENABLED (\E buf \in devBufs[budget] : Notify(buf)))
    /\ [][budget' # budget =>
            \E buf \in devBufs[budget] :
                notifications' = IF Len(notifications) < MailboxCapacity
                                 THEN Append(notifications, buf)
                                 ELSE notifications]_vars

\* the mailbox is full and a notification has been dropped
C5_Witness == dropped > 0 /\ Len(notifications) = MailboxCapacity

\* C6: print returns success only when its flush exchange received the
\* print-complete notification.
C6_SuccessNeedsCompletion ==
    \A p \in Procs :
        (thr[p].op = "print" /\ thr[p].pc = "idle" /\ thr[p].ret = "ok")
            => thr[p].flushRes = "ok"

\* C7: when the refresh at the start of print failed, print writes no
\* print-request packet and returns an error.
C7_FailedRefreshStopsPrint ==
    \A p \in Procs :
        (thr[p].op = "print" /\ thr[p].refresh.res \notin {"none", "ok"})
            => /\ PrintRequestPacket \notin thr[p].wrote
               /\ thr[p].pc = "idle" => thr[p].ret # "ok"

\* C8: a reply that is not well framed makes its exchange fail: it is not
\* parsed as a status, not taken as an accepted print request and not taken
\* as a print completion.
C8_IllFramedReplyFails ==
    [][\A p \in Procs :
          (Receives(p) /\ ~WellFramed(Head(notifications)))
             => /\ thr[p].pc = "us_wait" =>
                     /\ lastStatus' = lastStatus
                     /\ thr'[p].refresh.res # "ok"
                     /\ thr[p].op = "status" => thr'[p].ret # "ok"
                /\ thr[p].pc = "tp_wait" => thr'[p].pc = "idle" /\ thr'[p].ret # "ok"
                /\ thr[p].pc = "fl_wait" => thr'[p].flushRes # "ok"]_vars

\* C9: at most one request handler at a time has a command sent and its
\* reply pending.
C9_OneExchangeOutstanding ==
    Cardinality({p \in Procs : /\ thr[p].op \in {"status", "print"}
                               /\ thr[p].pc \in WaitPcs}) <= 1

\* C10: the session becomes Connected only by a Connect, and is Disconnected
\* after a Disconnect and after any failed control or data write.
C10_ConnectedLifecycle ==
    [][/\ (~connected /\ connected') =>
              \E p \in Procs : thr[p].pc = "idle" /\ thr'[p].op = "connect"
       /\ \A p \in Procs :
              (thr[p].pc = "idle" /\ thr'[p] # thr[p] /\ thr'[p].op = "disconnect")
                  => ~connected'
       /\ \A p \in Procs : WriteFails(p) => ~connected']_vars

\* C11: after a status exchange succeeds, the stored status depends only on
\* the reply just parsed: it equals what a session that never stored a status
\* before stores from the same reply.
C11_StatusDependsOnReplyOnly ==
    [][\A p \in Procs :
          (/\ thr[p].pc = "us_wait"
           /\ Receives(p)
           /\ parseStatusResponse(Head(notifications), lastStatus).err = "ok")
             => lastStatus' = parseStatusResponse(Head(notifications), InitStatus).st]_vars

\* C12: for every well-framed reply of at least 13 bytes with the status
\* command id, the status exchange succeeds and stores battery = byte 9,
\* temperature = byte 10, operational state = byte 6, error flag = byte 12
\* and, when that flag is nonzero and the reply has a byte 13, error code =
\* byte 13 (offsets counted from 0).
C12_StatusFieldsFromOffsets ==
    [][\A p \in Procs :
          (/\ thr[p].pc = "us_wait"
           /\ Receives(p)
           /\ WellFramed(Head(notifications))
           /\ Len(Head(notifications)) >= 13
           /\ Head(notifications)[3] = CmdGetStatus)
             => LET buf == Head(notifications)
                IN  /\ thr[p].op = "status" => thr'[p].ret = "ok"
                    /\ lastStatus'.Battery = buf[10]
                    /\ lastStatus'.Temperature = buf[11]
                    /\ lastStatus'.Status = buf[7]
                    /\ lastStatus'.ErrorFlag = buf[13]
                    /\ (buf[13] # 0 /\ Len(buf) > 13)
                          => lastStatus'.ErrorCode = buf[14]]_vars

\* a status query has returned the fields of the 14-byte reply that carries
\* an error flag and an error code
C12_Witness ==
    /\ thr[1].op = "status" /\ thr[1].pc = "idle" /\ thr[1].ret = "ok"
    /\ lastStatus.Battery = 60 /\ lastStatus.Temperature = 40
    /\ lastStatus.Status = 2 /\ lastStatus.ErrorFlag = 3 /\ lastStatus.ErrorCode = 9

\* a buffer of at least 7 bytes with the print-request command id and
\* payload byte 0
AcceptingReply(buf) ==
    /\ Len(buf) >= 7
    /\ buf[3] = CmdPrintRequest
    /\ buf[7] = 0

\* C13: only a print operation writes image data, and only after it has
\* received, as the reply to its print request, a buffer with the
\* print-request command id and payload byte 0; when its wait for that reply
\* ends by the timer or with any other buffer, print ends with an error and
\* has written nothing to the data channel.
C13_DataOnlyAfterAcceptance ==
    [][\A p \in Procs :
          /\ (thr'[p].dataOut > 0 /\ thr'[p].dataOut # thr[p].dataOut)
                => thr[p].op = "print" /\ thr[p].pc = "tr"
          /\ (thr'[p].pc = "tr" /\ thr[p].pc # "tr")
                => /\ thr[p].op = "print" /\ thr[p].pc = "tp_wait"
                   /\ notifications # <<>>
                   /\ AcceptingReply(Head(notifications))
          /\ (/\ thr[p].pc = "tp_wait" /\ thr'[p].pc # "tp_wait"
              /\ \/ notifications = <<>>
                 \/ ~AcceptingReply(Head(notifications)))
                => /\ thr'[p].pc = "idle"
                   /\ thr'[p].ret \in {"PrintRequestTimeout", "ShortPrintResponse",
                                       "UnexpectedResponse", "PrintRejected"}
                   /\ thr'[p].dataOut = 0]_vars

\* a print has written its image data
C13_Witness ==
    thr[1].op = "print" /\ thr[1].dataOut = NumChunks(TestImageBytes)

\* C14: when the loop of Image Transfer has ended on an image of n bytes, it
\* has written ceil(max(n, 4320) / 20) chunks, each of 20 bytes except that
\* the last holds what remains, and the chunks in write order spell the image
\* bytes followed by zero bytes up to max(n, 4320); the 480-byte image gives
\* 216 chunks of 20 bytes, 4320 bytes in all.
C14_PaddedAndChunked ==
    xfer.pc = "done" =>
        LET n == Len(xfer.imageData)
            m == IF n > 4320 THEN n ELSE 4320
            count == Len(xfer.sent)
        IN  /\ count * 20 >= m
            /\ (count - 1) * 20 < m
            /\ \A j \in 1..count :
                  /\ Len(xfer.sent[j]) = IF j < count THEN 20 ELSE m - ((count - 1) * 20)
                  /\ \A k \in 1..Len(xfer.sent[j]) :
                        xfer.sent[j][k] = IF ((j - 1) * 20) + k <= n
                                          THEN xfer.imageData[((j - 1) * 20) + k]
                                          ELSE 0
            /\ n = 480 => count = 216 /\ \A j \in 1..count : Len(xfer.sent[j]) = 20

\* the 480-byte test image has been transferred
C14_Witness ==
    /\ xfer.pc = "done"
    /\ xfer.imageData = TestImage
    /\ Len(xfer.sent) = 216

\* this step, p invokes setIntensity, which returns
CallsSetIntensity(p) ==
    /\ thr[p].pc = "idle"
    /\ thr'[p].op = "intensity"
    /\ thr'[p].ret # "running"
    /\ thr'[p] # thr[p]

\* pkt is a set-intensity packet whose single payload byte is v
IsIntensityPacketOf(pkt, v) ==
    /\ Len(pkt) = 9
    /\ pkt[3] = CmdSetIntensity
    /\ pkt[5] = 1 /\ pkt[6] = 0
    /\ pkt[7] = v

\* C15 as claimed: setIntensity with a value outside 0..255 fails with
\* out-of-range and writes nothing; with a value inside 0..255 on a connected
\* session it writes one set-intensity packet whose payload byte is the value
\* (nothing when the transport refuses the write), and it leaves the mailbox
\* as it was.
C15_SetIntensityAsClaimed ==
    [][\A p \in Procs :
          CallsSetIntensity(p) =>
             /\ notifications' = notifications
             /\ thr'[p].arg \notin 0..255
                   => thr'[p].ret = "OutOfRange" /\ thr'[p].wrote = {}
             /\ (thr'[p].arg \in 0..255 /\ connected)
                   => \/ /\ thr'[p].ret = "ok"
                         /\ Cardinality(thr'[p].wrote) = 1
                         /\ \A pkt \in thr'[p].wrote :
                               IsIntensityPacketOf(pkt, thr'[p].arg)
                      \/ /\ thr'[p].ret = "IntensityWriteFailed"
                         /\ thr'[p].wrote = {}]_vars

\* C15 amended: the same, the out-of-range failure being that of a connected
\* session; on a Disconnected session setIntensity fails with not-connected
\* whatever the value, and writes nothing.
C15_SetIntensityConnected ==
    [][\A p \in Procs :
          CallsSetIntensity(p) =>
             /\ notifications' = notifications
             /\ (thr'[p].arg \notin 0..255 /\ connected)
                   => thr'[p].ret = "OutOfRange" /\ thr'[p].wrote = {}
             /\ ~connected
                   => thr'[p].ret = "NotConnected" /\ thr'[p].wrote = {}
             /\ (thr'[p].arg \in 0..255 /\ connected)
                   => \/ /\ thr'[p].ret = "ok"
                         /\ Cardinality(thr'[p].wrote) = 1
                         /\ \A pkt \in thr'[p].wrote :
                               IsIntensityPacketOf(pkt, thr'[p].arg)
                      \/ /\ thr'[p].ret = "IntensityWriteFailed"
                         /\ thr'[p].wrote = {}]_vars

\* setIntensity(255) has returned success with a buffer waiting in the mailbox
C15_Witness ==
    /\ thr[1].op = "intensity" /\ thr[1].ret = "ok" /\ thr[1].arg = 255
    /\ notifications # <<>>

\* the bytes of the padded image from offset at on, at most 20 of them
ChunkAtOffset(image, at) ==
    LET n == Len(image)
        m == IF n > 4320 THEN n ELSE 4320
        len == IF m - at > 20 THEN 20 ELSE m - at
    IN  [k \in 1..len |-> IF at + k <= n THEN image[at + k] ELSE 0]

\* C16: the j-th write to the data channel is the chunk at offset 20 (j - 1),
\* whether or not an earlier chunk write failed, so every chunk is written
\* once and in increasing offset order; the transfer leaves its loop only when
\* every chunk has been written; the flush command is written by one step
\* only, after the last chunk, and a transfer that has returned has written
\* it unless the transport refused that write.
C16_ChunksOnceInOrderThenFlush ==
    [][\A p \in Procs :
          LET m == IF Len(xfer.imageData) > 4320 THEN Len(xfer.imageData) ELSE 4320
              written == Len(xfer.sent)
          IN  /\ xfer'.sent # xfer.sent
                    => /\ thr[p].pc = "tr" => thr'[p].pc = "tr"
                       /\ written * 20 < m
                       /\ xfer'.sent = Append(xfer.sent,
                                              ChunkAtOffset(xfer.imageData, written * 20))
              /\ (thr[p].pc = "tr" /\ thr'[p].pc # "tr")
                    => /\ written * 20 >= m
                       /\ xfer'.sent = xfer.sent
                       /\ thr'[p].pc = "fl_write"
                       /\ FlushPacket \notin thr[p].wrote
              /\ thr'[p].pc = "tr" => thr[p].pc = "tr"
              /\ (FlushPacket \in thr'[p].wrote /\ FlushPacket \notin thr[p].wrote)
                    => /\ thr[p].pc = "fl_write"
                       /\ thr'[p].pc = "fl_wait"
                       /\ written * 20 >= m
              /\ (thr[p].pc = "fl_write" /\ thr'[p].pc = "idle")
                    => thr'[p].flushRes = "FlushWriteFailed"
              /\ thr'[p].pc = "fl_write" => thr[p].pc \in {"tr", "fl_write"}]_vars

\* a transfer in which a chunk write failed has gone on to write every chunk
\* of an image longer than the floor, and then the flush command
C16_Witness ==
    /\ thr[1].dataFailed
    /\ Len(xfer.imageData) = MinImageBytes + ChunkSize + 1
    /\ Len(xfer.sent) = NumChunks(MinImageBytes + ChunkSize + 1)
    /\ FlushPacket \in thr[1].wrote

\* a buffer a status exchange must reject: shorter than 9 bytes, bad
\* preamble, wrong command id, declared length beyond the buffer, or shorter
\* than 13 bytes
RejectedStatusReply(buf) ==
    \/ Len(buf) < 9
    \/ buf[1] # 34 \/ buf[2] # 33
    \/ buf[3] # 161
    \/ 6 + buf[5] + (256 * buf[6]) > Len(buf)
    \/ Len(buf) < 13

\* this step, goroutine p goes through a part of UpdateStatus
StatusExchangeStep(p) ==
    /\ thr'[p] # thr[p]
    /\ \/ thr[p].pc \in {"us_enter", "us_write", "us_wait"}
       \/ thr[p].pc = "idle" /\ thr'[p].op \in {"status", "print"}

\* this step, the status exchange of p ends with success
StatusExchangeSucceeds(p) ==
    /\ thr[p].pc = "us_wait"
    /\ notifications # <<>>
    /\ ~RejectedStatusReply(Head(notifications))

\* C17: a step of a status exchange that fails, whatever the reason (not
\* connected, write failure, timeout, or a reply that is too short, has a bad
\* preamble, another command id or a declared length beyond the buffer),
\* leaves every field of the stored status as it was; only the receive of a
\* reply that is none of these changes it, and a rejected reply makes the
\* exchange return an error.
C17_FailedExchangeKeepsStatus ==
    [][\A p \in Procs :
          StatusExchangeStep(p) =>
             /\ ~StatusExchangeSucceeds(p) => lastStatus' = lastStatus
             /\ (/\ thr[p].pc = "us_wait"
                 /\ ~StatusExchangeSucceeds(p))
                   => /\ thr[p].op = "status" =>
                           thr'[p].pc = "idle" /\ thr'[p].ret # "ok"
                      /\ thr[p].op = "print" => thr'[p].refresh.res # "ok"]_vars

\* after a status has been stored, a status query has failed on a 12-byte
\* reply
C17_Witness ==
    /\ thr[1].op = "status" /\ thr[1].pc = "idle"
    /\ thr[1].ret = "ShortStatusPayload"
    /\ lastStatus.Connected /\ lastStatus.Battery = 60

\* C18: every invocation of getStatus, setIntensity and print returns,
\* whatever the device pushes and whether or not it pushes anything; a wait
\* for a reply ends either by taking the head of the mailbox or, the mailbox
\* being empty, by its timer.
C18_EveryCallReturns ==
    /\ \A p \in Procs :
          (thr[p].op \in {"status", "intensity", "print"} /\ thr[p].pc # "idle")
             ~> (thr[p].pc = "idle" /\ thr[p].ret # "running")
    /\ [][\A p \in Procs :
            (thr[p].pc \in WaitPcs /\ thr'[p].pc # thr[p].pc)
               => \/ notifications # <<>> /\ notifications' = Tail(notifications)
                  \/ notifications = <<>> /\ notifications' = notifications]_vars

\* a print has returned after its wait for the completion ended by the timer
C18_Witness ==
    /\ thr[1].op = "print" /\ thr[1].pc = "idle"
    /\ thr[1].flushRes = "PrintCompletionTimeout"

\* C19: in every reachable state, a Disconnect interleaved with a pending
\* status exchange included, the stored status reports Connected only while
\* the session is connected.
C19_StatusConnectedOnlyWhileConnected ==
    lastStatus.Connected => connected

\* x with the polynomial x^8 + x^2 + x + 1 (0x107), shifted to bit k,
\* subtracted when bit k of x is set; subtraction over GF(2) is bitwise xor
PolyReduce(x, k) ==
    IF Bit(x, k) = 1
    THEN LET g == 263 * (2 ^ (k - 8))
             X(i) == ((Bit(x, i) + Bit(g, i)) % 2) * (2 ^ i)
         IN  X(0) + X(1) + X(2) + X(3) + X(4) + X(5) + X(6) + X(7) + X(8)
             + X(9) + X(10) + X(11) + X(12) + X(13) + X(14) + X(15)
    ELSE x

\* the remainder of c * x^8 by the polynomial 0x107, for each byte c
PolyRemainder == [c \in 0..255 |->
    LET r15 == PolyReduce(c * 256, 15)
        r14 == PolyReduce(r15, 14)
        r13 == PolyReduce(r14, 13)
        r12 == PolyReduce(r13, 12)
        r11 == PolyReduce(r12, 11)
        r10 == PolyReduce(r11, 10)
        r9 == PolyReduce(r10, 9)
    IN  PolyReduce(r9, 8)]

\* CRC-8 with polynomial 0x07, initial value 0, no reflection, no final xor:
\* the remainder of payload * x^8, taken one byte at a time
RECURSIVE RefCrc8(_, _)
RefCrc8(payload, n) ==
    IF n = 0 THEN 0
    ELSE LET c == RefCrc8(payload, n - 1)
             X(i) == ((Bit(c, i) + Bit(payload[n], i)) % 2) * (2 ^ i)
         IN  PolyRemainder[X(0) + X(1) + X(2) + X(3) + X(4) + X(5) + X(6) + X(7)]

\* preamble 0x22 0x21, byte 3 zero, bytes 4-5 the little-endian count of the
\* payload bytes present, then the payload, its CRC-8 and the footer 0xFF
ControlPacketWellFramed(pkt) ==
    /\ Len(pkt) >= 8
    /\ pkt[1] = 34 /\ pkt[2] = 33
    /\ pkt[4] = 0
    /\ pkt[5] + (256 * pkt[6]) = Len(pkt) - 8
    /\ pkt[Len(pkt) - 1] = RefCrc8(SubSeq(pkt, 7, Len(pkt) - 2), Len(pkt) - 8)
    /\ pkt[Len(pkt)] = 255

\* C20: every packet an operation has written to the control channel is well
\* framed, its checksum byte being the CRC-8 (polynomial 0x07) of its payload.
C20_ControlPacketsWellFramed ==
    \A p \in Procs : \A pkt \in thr[p].wrote : ControlPacketWellFramed(pkt)

\* a print has written the status query, the set-intensity, the print-request
\* and the flush packets
C20_Witness ==
    /\ thr[1].op = "print"
    /\ {pkt[3] : pkt \in thr[1].wrote} = {161, 162, 169, 173}

=============================================================================
